---- MODULE Spec2Model ----
(***************************************************************************)
(* A model of the pdf-search positions store (doclib.PositionsState and    *)
(* doclib.DocPositions), of the extraction driver that feeds it, and of    *)
(* the concurrent extraction queues.                                       *)
(*                                                                         *)
(*   Spec        the store and the sequential extraction driver            *)
(*   SpecDriver  the same, one document of more pages                      *)
(*   SpecDoc     one DocPositions write handle used directly by a caller   *)
(*   SpecPage    the page-granularity extraction queue                     *)
(*   SpecDocQ    the document-granularity extraction queue                 *)
(***************************************************************************)
EXTENDS Bags, FiniteSets, Integers, Sequences, TLC

\* ------------------------------------------------------------------ bounds
MaxPages   == 3   \* pages in a PDF (SpecDriver)
DrvSubmit  == 1   \* documents submitted (SpecDriver)
StorePages == 2   \* pages in a PDF (Spec)
MaxSubmit  == 2   \* documents submitted to one store (Spec)
MaxAdds    == 3   \* AddDocPage calls made directly on one handle
MaxPageNum == 2   \* page numbers passed by a direct caller
MaxJobs    == 2   \* documents given to a queue
MaxWorkers == 2   \* worker goroutines of a queue
MaxQPages  == 3   \* pages in a PDF given to a queue
ReadPages  == 3   \* pages in a PDF (SpecRead)
ReadSubmit == 1   \* documents submitted (SpecRead)
MaxPageIdx == 2   \* page indices a reader asks for
MaxDat     == 4   \* bytes of a .dat file that can be damaged
MaxText    == 4   \* characters of a page text (SpecFn)
MaxRuns    == 3   \* text runs of a page (SpecFn)
RunLen     == 2   \* characters of a text run
MaxIdx     == 40  \* the indices 0..MaxIdx are encoded, and some larger ones
MaxDplDoc    == 1 \* document indices of an encoded DocPageLocations
MaxDplPage   == 2 \* page numbers of an encoded DocPageLocations
MaxHits      == 2 \* hits of one search
SearchSubmit == 1 \* documents submitted (SpecSearch)
SearchPages  == 3 \* pages of a document (SpecSearch)

Hashes == {"h1", "h2"}          \* content hashes (SHA-256 of the bytes)
InPaths == {"a.pdf", "b.pdf"}   \* paths a document is submitted under
Dpls == {<<>>, <<0>>}           \* DocPageLocations: the run start offsets
DriverDpls == {<<0>>}           \* what the extractor finds on a page with text

Min2(a, b) == IF a < b THEN a ELSE b

(***************************************************************************)
(* A Go map: a function whose domain is the set of keys present.           *)
(***************************************************************************)
MapPut(m, k, v) == [x \in DOMAIN m \cup {k} |-> IF x = k THEN v ELSE m[x]]
EmptyMap == [x \in {} |-> 0]

VARIABLES
  \* ---- doclib.PositionsState
  root,        \* "" (in memory) or the store directory
  fileList,    \* []FileDesc
  hashIndex,   \* {file hash: index into fileList}
  indexHash,   \* {index into fileList: file hash}
  hashPath,    \* {file hash: file path}
  hashDoc,     \* {file hash: *DocPositions} (memory mode)
  ctor,        \* how the store was built: "open" or "hipds"
  \* ---- the DocPositions write handle in use
  lDoc,
  \* ---- the file system under root
  disk,
  \* ---- the sequential driver (ExtractDocPagePositionsReader and its caller)
  drv,
  ExposeErrors,
  index,       \* the inverted index: the ids indexed so far
  nSubmit,     \* documents submitted so far
  \* ---- what the calls returned (history)
  lastCreate,  \* the last CreatePositionsDoc call
  addLog,      \* the AddDocPage calls made on lDoc, in order
  assigned,    \* every <<index, hash>> the store has had in indexHash
  \* ---- the extraction queues
  q,
  \* ---- the last call a reader of the store made, and what it returned
  call

vars == <<root, fileList, hashIndex, indexHash, hashPath, hashDoc, ctor, lDoc, disk,
          drv, ExposeErrors, index, nSubmit, lastCreate, addLog, assigned, q, call>>

\* The text of a page as the extractor returns it: two lines.
PageText == <<"a", "\n", "b">>

\* ------------------------------------------------------------ errors
NoErr == "nil"
ErrDuplicate == "duplicate PDF"
ErrRange == "out of range"
ErrIo == "io"
ErrPanic == "panic"
ErrBadChecksum == "bad checksum"
ErrBadPageIdx == "Bad pageIdx"
ErrBadSpan == "Bad span"
ErrNoMatch == "no match for hit"
ErrBadFormat == "bad format"
ErrNoLine == "No line number"
ErrEmptyStore == "Empty positions store"

\* ------------------------------------------------------------ PositionsState
isMem == root = ""

StoreLen == Len(fileList)

\* The size of the file with a given content, in the units the model counts in.
SizeMB(hash) == IF hash = "h1" THEN 7 ELSE 12

\* CreateFileDesc
FileDesc(inPath, hash) == [InPath |-> inPath, Hash |-> hash, SizeMB |-> SizeMB(hash)]

HashesOf(fl) == {fl[i].Hash : i \in 1..Len(fl)}

\* The persistent half (docPersist) and the memory half (docData) of a handle.
NilDoc ==
  [live |-> FALSE, inPath |-> "", hash |-> "", docIdx |-> 0, mem |-> FALSE,
   pageNums |-> <<>>, pageTexts |-> <<>>, spans |-> <<>>, pageDpl |-> EmptyMap,
   fileOpen |-> FALSE]

baseFields(fl, docIdx) ==
  [live |-> TRUE, inPath |-> fl[docIdx + 1].InPath,
   hash |-> fl[docIdx + 1].Hash, docIdx |-> docIdx, mem |-> isMem,
   pageNums |-> <<>>, pageTexts |-> <<>>, spans |-> <<>>, pageDpl |-> EmptyMap,
   fileOpen |-> FALSE]

\* addFile without the lookup of the hash: every file is appended.
addFileExistsNever(fd) == FALSE

\* addFile: the catalog after fd is offered, and <<docIdx, inPath, exists>>.
addFileExists(fd) == fd.Hash \in DOMAIN hashIndex

addFileResult(fd) ==
  IF addFileExists(fd)
  THEN <<hashIndex[fd.Hash], hashPath[fd.Hash], TRUE>>
  ELSE <<Len(fileList), fd.InPath, FALSE>>

addFileList(fd) == IF addFileExists(fd) THEN fileList ELSE Append(fileList, fd)

\* addFile recording the path of the file offered last.
addFileLastPath(fd) ==
  IF addFileExists(fd)
  THEN /\ hashPath' = MapPut(hashPath, fd.Hash, fd.InPath)
       /\ UNCHANGED <<fileList, hashIndex, indexHash>>
  ELSE /\ fileList' = addFileList(fd)
       /\ hashIndex' = MapPut(hashIndex, fd.Hash, Len(fileList))
       /\ indexHash' = MapPut(indexHash, Len(fileList), fd.Hash)
       /\ hashPath' = MapPut(hashPath, fd.Hash, fd.InPath)

addFile(fd) ==
  IF addFileExists(fd)
  THEN UNCHANGED <<fileList, hashIndex, indexHash, hashPath>>
  ELSE /\ fileList' = addFileList(fd)
       /\ hashIndex' = MapPut(hashIndex, fd.Hash, Len(fileList))
       /\ indexHash' = MapPut(indexHash, Len(fileList), fd.Hash)
       /\ hashPath' = MapPut(hashPath, fd.Hash, fd.InPath)

\* ------------------------------------------------------------ text and JSON
\* The digits of strconv and fmt; a string is a sequence of characters.
UpperDigits == <<"0", "1", "2", "3", "4", "5", "6", "7", "8", "9",
                 "A", "B", "C", "D", "E", "F">>
LowerDigits == <<"0", "1", "2", "3", "4", "5", "6", "7", "8", "9",
                 "a", "b", "c", "d", "e", "f">>

\* strconv.FormatUint(n, base), in upper case.
RECURSIVE FormatUint(_, _)
FormatUint(n, base) ==
  IF n < base THEN <<UpperDigits[n + 1]>>
  ELSE FormatUint(n \div base, base) \o <<UpperDigits[(n % base) + 1]>>

\* The value of a digit character in a base, -1 for any other character.
DigitValue(c, base) ==
  LET vs == {v \in 0..base - 1 : UpperDigits[v + 1] = c \/ LowerDigits[v + 1] = c}
  IN IF vs = {} THEN -1 ELSE CHOOSE v \in vs : TRUE

\* strconv.ParseUint(s, base, bitSize): <<value, ok>>.  The empty string and
\* a string with a character that is not a digit of the base are errors.
RECURSIVE ParseDigits(_, _, _)
ParseDigits(s, base, acc) ==
  IF s = <<>> THEN <<acc, TRUE>>
  ELSE IF DigitValue(Head(s), base) < 0 THEN <<0, FALSE>>
  ELSE ParseDigits(Tail(s), base, acc * base + DigitValue(Head(s), base))

ParseUint(s, base) == IF s = <<>> THEN <<0, FALSE>> ELSE ParseDigits(s, base, 0)

\* A JSON string and a JSON number.
jsonString(str) == <<"\"", str, "\"">>
jsonNumber(n) == FormatUint(n, 10)

\* json.MarshalIndent(fileList): a nil list is null, otherwise one object per
\* FileDesc with its exported fields under their names.
jsonNull == [null |-> TRUE, array |-> <<>>]

saveFileList(fl) ==
  IF fl = <<>> THEN jsonNull
  ELSE [null |-> FALSE,
        array |-> [i \in 1..Len(fl) |->
                     [InPath |-> jsonString(fl[i].InPath),
                      Hash |-> jsonString(fl[i].Hash),
                      SizeMB |-> jsonNumber(fl[i].SizeMB)]]]

\* json.Unmarshal into a FileDesc whose size has no field to go to.
jsonUnmarshalNoSize(b) ==
  IF b.null THEN <<>>
  ELSE [i \in 1..Len(b.array) |->
          [InPath |-> b.array[i].InPath[2], Hash |-> b.array[i].Hash[2], SizeMB |-> 0]]

\* json.Unmarshal into []FileDesc.
jsonUnmarshalFileList(b) ==
  IF b.null THEN <<>>
  ELSE [i \in 1..Len(b.array) |->
          [InPath |-> b.array[i].InPath[2], Hash |-> b.array[i].Hash[2],
           SizeMB |-> ParseUint(b.array[i].SizeMB, 10)[1]]]

\* Flush -> saveFileList: file_list.json holds the list fl (persistent mode only).
Flush(d, fl) ==
  IF isMem THEN d
  ELSE [d EXCEPT !.rootExists = TRUE,
                 !.fileList = [present |-> TRUE, list |-> saveFileList(fl)]]

\* ------------------------------------------------------------ the frame
\* serial.MakeDocPageLocations: the bytes of a DocPageLocations.
MakeDocPageLocations(dpl) == <<Len(dpl)>> \o dpl

RECURSIVE ByteSum(_)
ByteSum(buf) ==
  IF buf = <<>> THEN 0 ELSE (Len(buf) * (Head(buf) + 1) + ByteSum(Tail(buf))) % 251

\* crc32.ChecksumIEEE, reduced to a small checksum of the bytes.
ChecksumIEEE(buf) == ByteSum(buf)

\* ------------------------------------------------------------ the disk
NoDiskDoc == [dat |-> <<>>, datExists |-> FALSE, textDir |-> FALSE,
              pages |-> EmptyMap, idx |-> <<>>, idxExists |-> FALSE]

EmptyDisk == [rootExists |-> FALSE, fileList |-> [present |-> FALSE, list |-> jsonNull],
              positionsDir |-> FALSE, docs |-> [h \in Hashes |-> NoDiskDoc]]

\* ------------------------------------------------------------ DocPositions
\* AddDocPage returning the page count instead of the index of the last page.
AddDocPageMemCount(d, pageNum, dpl, text) ==
  LET d1 == [d EXCEPT !.pageDpl = MapPut(d.pageDpl, pageNum, dpl),
                      !.pageTexts = Append(d.pageTexts, text),
                      !.pageNums = Append(d.pageNums, pageNum)]
  IN <<d1, Len(d1.pageNums), NoErr>>

\* The in-memory branch of AddDocPage: <<handle, page index, error>>.
AddDocPageMem(d, pageNum, dpl, text) ==
  LET d1 == [d EXCEPT !.pageDpl = MapPut(d.pageDpl, pageNum, dpl),
                      !.pageTexts = Append(d.pageTexts, text),
                      !.pageNums = Append(d.pageNums, pageNum)]
  IN <<d1, Len(d1.pageNums) - 1, NoErr>>

\* addDocPagePersist: <<handle, disk, page index, error>>. io is the outcome of
\* the file system: "ok", or the call that fails.
addDocPagePersist(d, dk, pageNum, dpl, text, io) ==
  LET d0 == [d EXCEPT !.pageDpl = MapPut(d.pageDpl, pageNum, dpl)]
      buf == MakeDocPageLocations(dpl)
      dd == dk.docs[d.hash]
      span == [Offset |-> Len(dd.dat), Size |-> Len(buf),
               Check |-> ChecksumIEEE(buf), PageNum |-> pageNum]
      dk1 == [dk EXCEPT !.docs[d.hash].dat = dd.dat \o buf]
      d1 == [d0 EXCEPT !.spans = Append(d0.spans, span)]
      pageIdx == Len(d1.spans) - 1
      dk2 == [dk1 EXCEPT !.docs[d.hash].pages = MapPut(dd.pages, pageIdx, text)]
  IN CASE io = "seekErr" -> <<d0, dk, 0, ErrIo>>
       [] io = "writeErr" -> <<d0, dk, 0, ErrIo>>
       [] io = "textErr" -> <<d1, dk1, 0, ErrIo>>
       [] OTHER -> <<d1, dk2, pageIdx, NoErr>>

\* AddDocPage: <<handle, disk, page index, error>>. pageNum = 0 panics.
AddDocPage(d, dk, pageNum, dpl, text, io) ==
  IF pageNum = 0 THEN <<d, dk, 0, ErrPanic>>
  ELSE IF d.mem
       THEN LET r == AddDocPageMem(d, pageNum, dpl, text)
            IN <<r[1], dk, r[2], r[3]>>
       ELSE addDocPagePersist(d, dk, pageNum, dpl, text, io)

\* The page number a handle records for a page index.
RecordedPageNum(d, pageIdx) ==
  IF d.mem THEN d.pageNums[pageIdx + 1] ELSE d.spans[pageIdx + 1].PageNum

\* The number of pages a handle records.
RecordedPages(d) == IF d.mem THEN Len(d.pageNums) ELSE Len(d.spans)

\* DocPositions.Close: <<handle, disk, error>>.
Close(d, dk, io) ==
  IF d.mem THEN <<d, dk, NoErr>>
  ELSE CASE io = "dplErr" -> <<d, dk, ErrIo>>
         [] io = "saveErr" -> <<d, dk, ErrIo>>
         [] ~d.fileOpen ->
              <<d, [dk EXCEPT !.docs[d.hash].idx = d.spans,
                              !.docs[d.hash].idxExists = TRUE], ErrIo>>
         [] OTHER ->
              <<[d EXCEPT !.fileOpen = FALSE],
                [dk EXCEPT !.docs[d.hash].idx = d.spans,
                           !.docs[d.hash].idxExists = TRUE], NoErr>>

\* serial.ReadDocPageLocations: the DocPageLocations of the bytes of a frame.
ReadDocPageLocations(buf) ==
  IF buf = <<>> THEN <<>>
  ELSE [i \in 1..Min2(buf[1], Len(buf) - 1) |-> buf[i + 1]]

\* dataFile.Read(buf) at an offset: the bytes of the file, and zeros past its end.
ReadAt(dat, offset, size) ==
  [i \in 1..size |-> IF offset + i <= Len(dat) THEN dat[offset + i] ELSE 0]

\* readPersistedPagePositions: <<pageNum, dpl, err>>.  Indexing spans past its
\* end panics, and so does a checksum that differs from the recorded one.
readPersistedPagePositions(spans, dat, pageIdx) ==
  IF pageIdx >= Len(spans) THEN <<0, <<>>, ErrPanic>>
  ELSE LET e == spans[pageIdx + 1]
           buf == ReadAt(dat, e.Offset, e.Size)
       IN IF e.PageNum = 0 THEN <<0, <<>>, ErrBadSpan>>
          ELSE IF ChecksumIEEE(buf) # e.Check THEN <<0, <<>>, ErrPanic>>
          ELSE <<e.PageNum, ReadDocPageLocations(buf), NoErr>>

\* ReadPagePositions on a handle opened for reading: <<pageNum, dpl, err>>.
ReadPagePositions(d, dat, pageIdx) ==
  IF d.mem
  THEN IF pageIdx >= Len(d.pageNums) THEN <<0, <<>>, ErrBadPageIdx>>
       ELSE IF d.pageNums[pageIdx + 1] = 0 THEN <<0, <<>>, ErrBadSpan>>
       ELSE LET pageNum == d.pageNums[pageIdx + 1]
            IN <<pageNum,
                 IF pageNum \in DOMAIN d.pageDpl THEN d.pageDpl[pageNum] ELSE <<>>,
                 NoErr>>
  ELSE readPersistedPagePositions(d.spans, dat, pageIdx)

\* ReadPageText: <<text, err>>.  In memory pageTexts is indexed without a test
\* of the index; on disk the text is the file <pageIdx>.txt.
ReadPageText(d, pages, pageIdx) ==
  IF d.mem
  THEN IF pageIdx >= Len(d.pageTexts) THEN <<<<>>, ErrPanic>>
       ELSE <<d.pageTexts[pageIdx + 1], NoErr>>
  ELSE IF pageIdx \in DOMAIN pages THEN <<pages[pageIdx], NoErr>>
       ELSE <<<<>>, ErrIo>>

\* CreatePositionsDoc: the catalog is updated by addFile; the result is
\* <<handle, disk, error>>. io is the outcome of the file system.
CreatePositionsDoc(fd, dk, io, flushDue) ==
  LET r == addFileResult(fd)
      fl == addFileList(fd)
      dk0 == IF flushDue /\ ~r[3] THEN Flush(dk, fl) ELSE dk
      base == baseFields(fl, r[1])
      dk1 == [dk0 EXCEPT !.rootExists = TRUE, !.positionsDir = TRUE]
      dk2 == [dk1 EXCEPT !.docs[fd.Hash].dat = <<>>,
                         !.docs[fd.Hash].datExists = TRUE]
      dk3 == [dk2 EXCEPT !.docs[fd.Hash].textDir = TRUE]
      opened == [base EXCEPT !.fileOpen = TRUE]
  IN IF r[3] THEN <<NilDoc, dk0, ErrDuplicate>>
     ELSE IF isMem THEN <<base, dk0, NoErr>>
     ELSE CASE io = "mkdirPosErr" -> <<NilDoc, dk0, ErrIo>>
            [] io = "createErr" -> <<NilDoc, dk1, ErrIo>>
            [] io = "mkdirTextErr" -> <<NilDoc, dk2, ErrIo>>
            [] OTHER -> <<opened, dk3, NoErr>>

\* What a call of Flush leaves in call: the catalog it wrote.
FlushRecord(fl, hi, ih, hp) ==
  [fn |-> "Flush", fileList |-> fl, hashIndex |-> hi, indexHash |-> ih, hashPath |-> hp]

\* ------------------------------------------------------------ the driver
NoCreate == [hash |-> "", inPath |-> "", exists |-> FALSE, lenBefore |-> 0, err |-> NoErr]

\* ExtractDocPagePositionsReader, ProcessPDFPagesReader and processPDFPages,
\* followed by the caller indexDocPagesLocReader.
IdleDrv ==
  [pc |-> "idle", hash |-> "", numPages |-> 0, pageNum |-> 0, docPages |-> <<>>,
   err |-> NoErr, panicked |-> FALSE, called |-> <<>>, good |-> <<>>]

DocPageText(docIdx, pageIdx, pageNum, text) ==
  [DocIdx |-> docIdx, PageIdx |-> pageIdx, PageNum |-> pageNum, Text |-> text]

\* ExtractDocPagePositionsReader returns (pages, err).
Returned(dv, pages, err) == [dv EXCEPT !.pc = "returned", !.docPages = pages, !.err = err]

\* What ProcessPDFPagesReader returns after its deferred function has recovered
\* a panic: the function result is unnamed, so the assignment to the local err
\* in the deferred function does not reach the caller.
RecoveredErr == NoErr

\* The loop condition of processPDFPages.
MorePages(pageNum, numPages) == pageNum < numPages

\* The rest of ExtractDocPagePositionsReader once ProcessPDFPagesReader has
\* returned err: Close, register the handle in hashDoc, return.
AfterProcess(dv, d, dk, err, closeIo) ==
  LET c == Close(d, dk, closeIo)
  IN IF err # NoErr
     THEN /\ drv' = Returned(dv, dv.docPages, err)
          /\ lDoc' = d
          /\ disk' = dk
          /\ hashDoc' = hashDoc
     ELSE /\ lDoc' = c[1]
          /\ disk' = c[2]
          /\ IF c[3] # NoErr
             THEN /\ drv' = Returned(dv, <<>>, c[3])
                  /\ hashDoc' = hashDoc
             ELSE /\ drv' = Returned(dv, dv.docPages, NoErr)
                  /\ hashDoc' = IF isMem THEN MapPut(hashDoc, d.hash, c[1]) ELSE hashDoc

\* A panic inside ProcessPDFPagesReader: it propagates when ExposeErrors is set,
\* otherwise it is recovered and the driver goes on with RecoveredErr.
Panic(dv, d, dk, closeIo) ==
  IF ExposeErrors
  THEN /\ drv' = [dv EXCEPT !.pc = "crashed", !.panicked = TRUE]
       /\ lDoc' = d
       /\ disk' = dk
       /\ hashDoc' = hashDoc
  ELSE AfterProcess([dv EXCEPT !.panicked = TRUE], d, dk, RecoveredErr, closeIo)

OpenOutcomes == {"ok", "hashErr", "openErr", "openPanic", "numPagesErr"}
CreateIo == {"ok", "mkdirPosErr", "createErr", "mkdirTextErr"}
AddIo == {"ok", "seekErr", "writeErr", "textErr"}
CloseIo == {"ok", "dplErr", "saveErr"}
PageOutcomes == {"text", "empty", "err", "panic", "getPageErr"}

\* The start of ExtractDocPagePositionsReader(inPath, rs): CreateFileDesc,
\* CreatePositionsDoc, PdfOpenReader, GetNumPages.
ExtractBegin(inPath, hash, open, numPages, io, closeIo, flushDue) ==
  LET fd == FileDesc(inPath, hash)
      r == CreatePositionsDoc(fd, disk, io, flushDue)
      dv == [IdleDrv EXCEPT !.hash = hash, !.numPages = numPages, !.pageNum = 1]
      created == open # "hashErr" /\ ~addFileExists(fd)
      closes == created /\ ~isMem /\ io = "ok" /\ open = "openPanic" /\ ~ExposeErrors
  IN /\ drv.pc = "idle"
     /\ ctor = "open"   \* a store rebuilt by FromHIPDs is used for reading
     \* an input that is not read has one value
     /\ (open # "ok" => numPages = 0)
     /\ (~(created /\ ~isMem) => io = "ok")
     /\ (~closes => closeIo = "ok")
     /\ (~(created /\ ~isMem) => ~flushDue)
     /\ nSubmit' = nSubmit + 1
     /\ UNCHANGED <<root, ctor, ExposeErrors, index, q, addLog>>
     /\ IF open = "hashErr"
        THEN /\ drv' = Returned(dv, <<>>, ErrIo)
             /\ UNCHANGED <<fileList, hashIndex, indexHash, hashPath, hashDoc,
                            lDoc, disk, lastCreate>>
        ELSE /\ lastCreate' = [hash |-> hash, inPath |-> inPath,
                               exists |-> hash \in HashesOf(fileList),
                               lenBefore |-> StoreLen, err |-> r[3]]
             /\ addFile(fd)
             /\ IF r[3] # NoErr
                THEN /\ drv' = Returned(dv, <<>>, r[3])
                     /\ lDoc' = r[1]
                     /\ disk' = r[2]
                     /\ hashDoc' = hashDoc
                ELSE CASE open = "openErr" \/ open = "numPagesErr" ->
                            AfterProcess(dv, r[1], r[2], ErrIo, closeIo)
                       [] open = "openPanic" -> Panic(dv, r[1], r[2], closeIo)
                       [] OTHER -> /\ drv' = [dv EXCEPT !.pc = "pages"]
                                   /\ lDoc' = r[1]
                                   /\ disk' = r[2]
                                   /\ hashDoc' = hashDoc
     /\ assigned' = assigned \cup {<<i, indexHash'[i]>> : i \in DOMAIN indexHash'}
     \* addFile has called Flush
     /\ call' = IF flushDue THEN FlushRecord(fileList', hashIndex', indexHash', hashPath')
                ELSE call

\* One iteration of the loop of processPDFPages: GetPage and the processPage
\* callback of ExtractDocPagePositionsReader.
ProcessPage(outcome, dpl, io, closeIo) ==
  LET pageNum == drv.pageNum
      dv == [drv EXCEPT !.called = Append(drv.called, pageNum)]
      a == AddDocPage(lDoc, disk, pageNum, dpl, PageText, io)
      page == DocPageText(lDoc.docIdx, a[3], pageNum, PageText)
      dvg == [dv EXCEPT !.good = Append(dv.good, pageNum)]
      closes == ~isMem /\ outcome = "panic" /\ ~ExposeErrors
  IN /\ drv.pc = "pages"
     /\ MorePages(drv.pageNum, drv.numPages)
     \* an input that is not read has one value
     /\ (~(outcome = "text" /\ ~isMem) => io = "ok")
     /\ (~closes => closeIo = "ok")
     /\ UNCHANGED <<root, ctor, fileList, hashIndex, indexHash, hashPath, ExposeErrors,
                    index, nSubmit, lastCreate, assigned, q, call>>
     /\ CASE outcome = "getPageErr" ->
               /\ AfterProcess(drv, lDoc, disk, ErrIo, closeIo)
               /\ addLog' = addLog
          [] outcome = "panic" ->
               /\ Panic(dv, lDoc, disk, closeIo)
               /\ addLog' = addLog
          [] outcome = "err" \/ outcome = "empty" ->
               /\ drv' = [dv EXCEPT !.pageNum = pageNum + 1]
               /\ UNCHANGED <<lDoc, disk, hashDoc, addLog>>
          [] OTHER ->
               /\ addLog' = Append(addLog, [pageNum |-> pageNum, idx |-> a[3], err |-> a[4]])
               /\ IF a[4] # NoErr
                  THEN AfterProcess(dvg, a[1], a[2], a[4], closeIo)
                  ELSE /\ drv' = [dvg EXCEPT !.pageNum = pageNum + 1,
                                            !.docPages = Append(dvg.docPages, page)]
                       /\ lDoc' = a[1]
                       /\ disk' = a[2]
                       /\ hashDoc' = hashDoc

\* The loop of processPDFPages has ended: ProcessPDFPagesReader returns nil.
ExtractEnd(closeIo) ==
  /\ drv.pc = "pages"
  /\ ~MorePages(drv.pageNum, drv.numPages)
  /\ (isMem => closeIo = "ok")
  /\ AfterProcess(drv, lDoc, disk, NoErr, closeIo)
  /\ UNCHANGED <<root, ctor, fileList, hashIndex, indexHash, hashPath, ExposeErrors,
                 index, nSubmit, lastCreate, addLog, assigned, q, call>>

\* indexDocPagesLocReader after ExtractDocPagePositionsReader has returned: an
\* error is logged and dropped, otherwise every page is given to the index.
IndexDocPages ==
  /\ drv.pc = "returned"
  /\ index' = IF drv.err # NoErr THEN index
              ELSE index \cup {<<drv.docPages[i].DocIdx, drv.docPages[i].PageIdx>> :
                                 i \in 1..Len(drv.docPages)}
  /\ drv' = IdleDrv
  /\ lDoc' = NilDoc
  /\ lastCreate' = NoCreate
  /\ addLog' = <<>>
  /\ UNCHANGED <<root, ctor, fileList, hashIndex, indexHash, hashPath, hashDoc, disk,
                 ExposeErrors, nSubmit, assigned, q, call>>

\* ------------------------------------------------------------ the store
\* PositionsState.Flush called by the owner of the store.
FlushCall ==
  /\ ~isMem
  /\ drv.pc = "idle"
  /\ disk' = Flush(disk, fileList)
  /\ call' = FlushRecord(fileList, hashIndex, indexHash, hashPath)
  /\ UNCHANGED <<root, fileList, hashIndex, indexHash, hashPath, hashDoc, ctor, lDoc,
                 drv, ExposeErrors, index, nSubmit, lastCreate, addLog, assigned, q>>

\* The store directories of the model, as the characters of their names.
Roots == {"", "store", "store.tmp"}

RootChars(r) ==
  IF r = "" THEN <<>>
  ELSE IF r = "store" THEN <<"s", "t", "o", "r", "e">>
  ELSE <<"s", "t", "o", "r", "e", ".", "t", "m", "p">>

\* filepath.Join(root, "file_list.json")
fileListPath ==
  (IF root = "" THEN <<>> ELSE RootChars(root) \o <<"/">>)
    \o <<"f", "i", "l", "e", "_", "l", "i", "s", "t", ".", "j", "s", "o", "n">>

\* strings.HasPrefix
HasPrefix(s, prefix) ==
  Len(s) >= Len(prefix) /\ SubSeq(s, 1, Len(prefix)) = prefix

StorePrefix == <<"s", "t", "o", "r", "e", ".">>

ErrNotAStore == "not a PositionsState directory"

\* RemoveDirectory: the tree under the directory and the directory are gone.
RemoveDirectory(dk) == <<EmptyDisk, NoErr>>

\* removePositionsState that removes whatever directory it is given.
removePositionsStateUnchecked(dk) ==
  IF ~dk.rootExists THEN <<dk, NoErr>>
  ELSE RemoveDirectory(dk)

\* removePositionsState: <<disk, error>>.
removePositionsState(dk) ==
  IF ~dk.rootExists THEN <<dk, NoErr>>
  ELSE IF ~dk.fileList.present /\ ~HasPrefix(fileListPath, StorePrefix)
       THEN <<dk, ErrNotAStore>>
  ELSE RemoveDirectory(dk)

\* loadFileList: a missing file is an empty list.
loadFileList(dk) ==
  IF dk.fileList.present THEN jsonUnmarshalFileList(dk.fileList.list) ELSE <<>>

\* The maps OpenPositionsState derives from the loaded list: a later entry
\* with the same hash overwrites an earlier one.
LastWith(fl, hash) == CHOOSE i \in 1..Len(fl) :
  /\ fl[i].Hash = hash
  /\ \A j \in i + 1..Len(fl) : fl[j].Hash # hash

\* OpenPositionsState(root, forceCreate) on an existing directory: the process
\* that owned the store has ended and a new one opens it.
OpenPositionsState(forceCreate) ==
  LET rm == IF forceCreate THEN removePositionsState(disk) ELSE <<disk, NoErr>>
      fl == loadFileList(rm[1])
      rec == [fn |-> "OpenPositionsState", forceCreate |-> forceCreate,
              afterFlush |-> call.fn = "Flush", err |-> rm[2],
              hadRoot |-> disk.rootExists, sentinel |-> disk.fileList.present,
              diskSame |-> rm[1] = disk, removed |-> ~rm[1].rootExists]
  IN /\ ~isMem
     /\ drv.pc \in {"idle", "crashed"}
     /\ call' = rec
     /\ disk' = rm[1]
     /\ IF rm[2] # NoErr
        THEN UNCHANGED <<fileList, hashIndex, indexHash, hashPath, hashDoc, ctor, drv,
                         lDoc, lastCreate, addLog, index, assigned>>
        ELSE /\ fileList' = fl
             /\ hashIndex' = [h \in HashesOf(fl) |-> LastWith(fl, h) - 1]
             /\ indexHash' = [i \in 0..Len(fl) - 1 |-> fl[i + 1].Hash]
             /\ hashPath' = [h \in HashesOf(fl) |-> fl[LastWith(fl, h)].InPath]
             /\ hashDoc' = EmptyMap
             /\ ctor' = "open"
             /\ drv' = IdleDrv
             /\ lDoc' = NilDoc
             /\ lastCreate' = NoCreate
             /\ addLog' = <<>>
             /\ index' = IF forceCreate THEN {} ELSE index
             /\ assigned' = {<<i, indexHash'[i]>> : i \in DOMAIN indexHash'}
     /\ UNCHANGED <<root, ExposeErrors, nSubmit, q>>

\* ToHIPDs: one record per key of hashIndex.
ToHIPDs ==
  {[Hash |-> h, Index |-> hashIndex[h], Path |-> hashPath[h],
    Doc |-> [Path |-> hashDoc[h].inPath, DocIdx |-> hashDoc[h].docIdx,
             PageNums |-> hashDoc[h].pageNums, PageTexts |-> hashDoc[h].pageTexts]] :
     h \in DOMAIN hashIndex}

\* The handle FromHIPDs builds for one record.
HipdDoc(h) ==
  [NilDoc EXCEPT !.live = TRUE, !.inPath = h.Doc.Path, !.hash = h.Hash,
                 !.docIdx = h.Doc.DocIdx, !.mem = TRUE,
                 !.pageNums = h.Doc.PageNums, !.pageTexts = h.Doc.PageTexts]

\* The file list of the store FromHIPDs returns: it is never assigned.
FromHIPDsFileList(hipds) == <<>>

\* FromHIPDs(ToHIPDs()): the store is rebuilt from its own records, as when the
\* records are written beside the index and read back.
FromHIPDsCall ==
  LET hipds == ToHIPDs
      rec(hash) == CHOOSE h \in hipds : h.Hash = hash
      keys == {h.Hash : h \in hipds}
  IN /\ isMem
     /\ drv.pc = "idle"
     /\ ctor = "open"
     \* ToHIPDs dereferences hashDoc[hash] for every catalogued hash
     /\ DOMAIN hashIndex \subseteq DOMAIN hashDoc
     \* FromHIPDs panics on a document with no pages and on an empty list
     /\ hipds # {}
     /\ \A h \in hipds : h.Doc.PageNums # <<>> /\ h.Doc.PageTexts # <<>>
     /\ fileList' = FromHIPDsFileList(hipds)
     /\ hashPath' = [h \in keys |-> rec(h).Path]
     /\ hashDoc' = [h \in keys |-> HipdDoc(rec(h))]
     /\ hashIndex' = [h \in keys |-> rec(h).Index]
     /\ indexHash' = [i \in {h.Index : h \in hipds} |->
                        (CHOOSE h \in hipds : h.Index = i).Hash]
     /\ ctor' = "hipds"
     /\ assigned' = {<<i, indexHash'[i]>> : i \in DOMAIN indexHash'}
     /\ UNCHANGED <<root, lDoc, disk, drv, ExposeErrors, index, nSubmit,
                    lastCreate, addLog, q, call>>

\* ------------------------------------------------------------ reading
\* OpenPositionsDoc(docIdx): <<handle, err>>.  In memory the handle is the one
\* registered in hashDoc, nil when there is none; on disk the spans are read
\* from the .idx.json file.
OpenPositionsDoc(docIdx) ==
  IF isMem
  THEN IF docIdx \in DOMAIN indexHash /\ indexHash[docIdx] \in DOMAIN hashDoc
       THEN <<hashDoc[indexHash[docIdx]], NoErr>>
       ELSE <<NilDoc, NoErr>>
  ELSE IF docIdx >= Len(fileList) THEN <<NilDoc, ErrRange>>
       ELSE LET base == baseFields(fileList, docIdx)
                dd == disk.docs[base.hash]
            IN IF ~dd.datExists \/ ~dd.idxExists THEN <<base, ErrIo>>
               ELSE <<[base EXCEPT !.spans = dd.idx, !.fileOpen = TRUE], NoErr>>

\* The data file of a handle.
DataFile(d) == IF d.mem THEN <<>> ELSE disk.docs[d.hash].dat

\* ReadDocPagePositions(docIdx, pageIdx): <<inPath, pageNum, dpl, err>>.  A nil
\* handle panics in the deferred Close.
ReadDocPagePositions(docIdx, pageIdx) ==
  LET o == OpenPositionsDoc(docIdx)
      r == ReadPagePositions(o[1], DataFile(o[1]), pageIdx)
  IN IF o[2] # NoErr THEN <<"", 0, <<>>, o[2]>>
     ELSE IF ~o[1].live THEN <<"", 0, <<>>, ErrPanic>>
     ELSE <<o[1].inPath, r[1], r[2], r[3]>>

\* ReadDocPageText(docIdx, pageIdx): <<text, err>>.
ReadDocPageText(docIdx, pageIdx) ==
  LET o == OpenPositionsDoc(docIdx)
  IN IF o[2] # NoErr THEN <<<<>>, o[2]>>
     ELSE IF ~o[1].live THEN <<<<>>, ErrPanic>>
     ELSE ReadPageText(o[1], IF o[1].mem THEN EmptyMap ELSE disk.docs[o[1].hash].pages,
                       pageIdx)

\* What the reader knows of the page it asks for: whether the document could
\* be opened, how many pages it has, and whether the bytes of the frame of
\* the page still have the checksum recorded for them.
PageFacts(docIdx, pageIdx) ==
  LET o == OpenPositionsDoc(docIdx)
      d == o[1]
      opened == o[2] = NoErr /\ d.live
      n == IF opened THEN RecordedPages(d) ELSE 0
      e == d.spans[pageIdx + 1]
  IN [opened |-> opened, numPages |-> n,
      badFrame |-> /\ opened /\ ~d.mem /\ pageIdx < n
                   /\ ChecksumIEEE(ReadAt(DataFile(d), e.Offset, e.Size)) # e.Check]

\* A reader calls ReadDocPagePositions.  A panic ends the reader.
ReadDocPagePositionsCall(docIdx, pageIdx) ==
  LET r == ReadDocPagePositions(docIdx, pageIdx)
  IN /\ drv.pc = "idle"
     /\ call' = [fn |-> "ReadDocPagePositions", docIdx |-> docIdx, pageIdx |-> pageIdx,
                 facts |-> PageFacts(docIdx, pageIdx),
                 inPath |-> r[1], pageNum |-> r[2], dpl |-> r[3], err |-> r[4]]
     /\ drv' = IF r[4] = ErrPanic THEN [drv EXCEPT !.pc = "crashed"] ELSE drv
     /\ UNCHANGED <<root, fileList, hashIndex, indexHash, hashPath, hashDoc, ctor, lDoc,
                    disk, ExposeErrors, index, nSubmit, lastCreate, addLog, assigned, q>>

\* A reader calls ReadDocPageText.
ReadDocPageTextCall(docIdx, pageIdx) ==
  LET r == ReadDocPageText(docIdx, pageIdx)
  IN /\ drv.pc = "idle"
     /\ call' = [fn |-> "ReadDocPageText", docIdx |-> docIdx, pageIdx |-> pageIdx,
                 facts |-> PageFacts(docIdx, pageIdx),
                 text |-> r[1], err |-> r[2]]
     /\ drv' = IF r[2] = ErrPanic THEN [drv EXCEPT !.pc = "crashed"] ELSE drv
     /\ UNCHANGED <<root, fileList, hashIndex, indexHash, hashPath, hashDoc, ctor, lDoc,
                    disk, ExposeErrors, index, nSubmit, lastCreate, addLog, assigned, q>>

\* One bit of one byte of a .dat file is flipped on the disk.
FlipBit(b) == IF b % 2 = 0 THEN b + 1 ELSE b - 1

Corrupt(hash, pos) ==
  /\ ~isMem
  /\ drv.pc = "idle"
  /\ disk.docs[hash].datExists
  /\ pos \in 1..Len(disk.docs[hash].dat)
  /\ disk' = [disk EXCEPT !.docs[hash].dat[pos] = FlipBit(@)]
  /\ UNCHANGED <<root, fileList, hashIndex, indexHash, hashPath, hashDoc, ctor, lDoc,
                 drv, ExposeErrors, index, nSubmit, lastCreate, addLog, assigned, q, call>>

\* ------------------------------------------------------------ searching
\* sort.Search(n, f): binary search for the smallest index in [0, n) at which f
\* is true, n when there is none; T is the set of indices at which f is true.
RECURSIVE SortSearch(_, _, _)
SortSearch(i, j, T) ==
  IF i >= j THEN i
  ELSE LET h == (i + j) \div 2
       IN IF h \notin T THEN SortSearch(h + 1, j, T) ELSE SortSearch(i, h, T)

\* fmt.Sprintf("%04X.%d", docIdx, pageIdx)
RECURSIVE PadZero(_, _)
PadZero(str, width) == IF Len(str) >= width THEN str ELSE PadZero(<<"0">> \o str, width)

Sprintf04Xd(docIdx, pageIdx) ==
  PadZero(FormatUint(docIdx, 16), 4) \o <<".">> \o FormatUint(pageIdx, 10)

\* strings.Split(str, sep) for a separator of one character.
RECURSIVE Split(_, _, _)
Split(str, sep, part) ==
  IF str = <<>> THEN <<part>>
  ELSE IF Head(str) = sep THEN <<part>> \o Split(Tail(str), sep, <<>>)
  ELSE Split(Tail(str), sep, Append(part, Head(str)))

\* decodeID reading the document index in base 10.
decodeIDDecimal(id) ==
  LET parts == Split(id, ".", <<>>)
  IN IF Len(parts) # 2 THEN <<0, 0, FALSE>>
     ELSE LET docIdx == ParseUint(parts[1], 10)
              pageIdx == ParseUint(parts[2], 10)
          IN IF ~docIdx[2] \/ ~pageIdx[2] THEN <<0, 0, FALSE>>
             ELSE <<docIdx[1], pageIdx[1], TRUE>>

\* decodeID(id): <<docIdx, pageIdx, ok>>.
decodeID(id) ==
  LET parts == Split(id, ".", <<>>)
  IN IF Len(parts) # 2 THEN <<0, 0, FALSE>>
     ELSE LET docIdx == ParseUint(parts[1], 16)
              pageIdx == ParseUint(parts[2], 10)
          IN IF ~docIdx[2] \/ ~pageIdx[2] THEN <<0, 0, FALSE>>
             ELSE <<docIdx[1], pageIdx[1], TRUE>>

\* lineEndings(text): 0, then the offset of every newline of the text, to
\* which a newline is added when it does not end with one.  Offsets count
\* from 0.
lineEndings(text) ==
  LET t == IF text = <<>> \/ text[Len(text)] # "\n" THEN Append(text, "\n") ELSE text
      RECURSIVE Ends(_)
      Ends(ofs) == IF ofs >= Len(t) THEN <<>>
                   ELSE IF t[ofs + 1] = "\n" THEN <<ofs>> \o Ends(ofs + 1)
                   ELSE Ends(ofs + 1)
  IN <<0>> \o Ends(0)

\* getLineNumber(text, offset): the index i, the offsets [lo, hi) of the line
\* returned, ok, and whether indexing endings or the text panicked.
getLineNumber(text, offset) ==
  LET endings == lineEndings(text)
      n == Len(endings)
      i == SortSearch(0, n, {k \in 0..n - 1 : endings[k + 1] > offset})
      ok == 0 <= i /\ i < n
      panics == i - 1 < 0 \/ i >= n \/ endings[i + 1] > Len(text)
      ofs0 == endings[i]
      ofs1 == endings[i + 1]
      strip == ofs0 < ofs1 /\ text[ofs0 + 1] = "\n"
  IN IF panics THEN [i |-> i, lo |-> 0, hi |-> 0, line |-> <<>>, ok |-> ok, panicked |-> TRUE]
     ELSE [i |-> i, lo |-> IF strip THEN ofs0 + 1 ELSE ofs0, hi |-> ofs1,
           line |-> SubSeq(text, (IF strip THEN ofs0 + 1 ELSE ofs0) + 1, ofs1),
           ok |-> ok, panicked |-> FALSE]

\* serial.TextLocation
TextLocation(start, end, llx, lly, urx, ury) ==
  [Start |-> start, End |-> end, Llx |-> llx, Lly |-> lly, Urx |-> urx, Ury |-> ury]

ZeroTextLocation == TextLocation(0, 0, 0, 0, 0, 0)

\* serial.DocPageLocations
DocPageLocations(doc, page, locs) == [Doc |-> doc, Page |-> page, Locations |-> locs]

\* addTextLocation: the TextLocation table of the buffer, whose fields are
\* offset, llx, lly, urx and ury.
addTextLocation(loc) ==
  [offset |-> loc.Start, llx |-> loc.Llx, lly |-> loc.Lly, urx |-> loc.Urx, ury |-> loc.Ury]

\* getTextLocation: the TextLocation of a table.
getTextLocation(loc) == TextLocation(loc.offset, 0, loc.llx, loc.lly, loc.urx, loc.ury)

\* serial.MakeDocPageLocations, table by table: the DocPageLocations table
\* with its vector of TextLocation tables.
MakeDocPageLocationsTable(dpl) ==
  [doc |-> dpl.Doc, page |-> dpl.Page,
   locations |-> [i \in 1..Len(dpl.Locations) |-> addTextLocation(dpl.Locations[i])]]

\* serial.ReadDocPageLocations, table by table: <<DocPageLocations, error>>.
ReadDocPageLocationsTable(buf) ==
  <<DocPageLocations(buf.doc, buf.page,
                     [i \in 1..Len(buf.locations) |-> getTextLocation(buf.locations[i])]),
    NoErr>>

min(x, y) == IF x < y THEN x ELSE y
max(x, y) == IF x > y THEN x ELSE y

\* getPositionIndex(positions, offset): <<i, ok>>, i counting from 0.
getPositionIndex(positions, offset) ==
  LET n == Len(positions)
      i == SortSearch(0, n, {k \in 0..n - 1 : positions[k + 1].Start >= offset})
  IN <<i, 0 <= i /\ i < n>>

\* getPositionIndex panics: when the index is out of range the arguments of
\* its error log are evaluated, positions[0] among them, and an empty slice
\* has no element 0.
getPositionIndexPanics(positions, offset) ==
  ~getPositionIndex(positions, offset)[2] /\ Len(positions) = 0

\* GetPosition(positions, start, end) panics in one of its two look-ups.
GetPositionPanics(positions, start, end) ==
  getPositionIndexPanics(positions, end) \/ getPositionIndexPanics(positions, start)

\* What a call that panicked has in place of a rectangle.
NoTextLocation == [panic |-> "index out of range"]

\* GetPosition(positions, start, end)
GetPosition(positions, start, end) ==
  LET r0 == getPositionIndex(positions, end)
      r1 == getPositionIndex(positions, start)
      p0 == positions[r0[1] + 1]
      p1 == positions[r1[1] + 1]
  IN IF ~(r0[2] /\ r1[2]) THEN ZeroTextLocation
     ELSE TextLocation(start, end, min(p0.Llx, p1.Llx), min(p0.Lly, p1.Lly),
                       max(p0.Urx, p1.Urx), max(p0.Ury, p1.Ury))

\* A hit of the index engine (search.DocumentMatch): the identifier of the
\* page and the locations of the term in the "Text" field, in the order the
\* loops of getMatch visit them.
Location(start, end) == [Start |-> start, End |-> end]

HitLocations == {<<>>, <<Location(0, 1)>>, <<Location(2, 3), Location(0, 1)>>}

DocumentMatch(id, locations) == [ID |-> id, Locations |-> locations]

\* getMatch(hit)
getMatch(hit) ==
  LET r == decodeID(hit.ID)
  IN IF ~r[3] THEN [docIdx |-> 0, pageIdx |-> 0, Start |-> 0, End |-> 0, err |-> ErrBadFormat]
     ELSE IF hit.Locations = <<>>
     THEN [docIdx |-> 0, pageIdx |-> 0, Start |-> 0, End |-> 0, err |-> ErrNoMatch]
     ELSE [docIdx |-> r[1], pageIdx |-> r[2], Start |-> hit.Locations[1].Start,
           End |-> hit.Locations[1].End, err |-> NoErr]

PdfMatch(inPath, pageNum, lineNum, line, dpl, m, err) ==
  [InPath |-> inPath, PageNum |-> pageNum, LineNum |-> lineNum, Line |-> line,
   DocPageLocations |-> dpl, match |-> m, err |-> err]

NoPdfMatch(m, err) == PdfMatch("", 0, 0, <<>>, <<>>, m, err)

\* getPdfMatch(hit), from the line number on: ln is what getLineNumber
\* returned for the text of the page.
lineMatch(m, rp, ln) ==
  IF ln.panicked THEN NoPdfMatch(m, ErrPanic)
  ELSE IF ~ln.ok THEN NoPdfMatch(m, ErrNoLine)
  ELSE PdfMatch(rp[1], rp[2], ln.i, ln.line, rp[3], m, NoErr)

\* getPdfMatch(hit), from the reads on: rp is what ReadDocPagePositions
\* returned and rt what ReadDocPageText returned.
readMatch(m, rp, rt) ==
  IF rp[4] # NoErr THEN NoPdfMatch(m, rp[4])
  ELSE IF rt[2] # NoErr THEN NoPdfMatch(m, rt[2])
  ELSE lineMatch(m, rp, getLineNumber(rt[1], m.Start))

\* getPdfMatch(hit), m being what getMatch returned.
pageMatch(m) ==
  IF m.err # NoErr THEN NoPdfMatch(m, m.err)
  ELSE readMatch(m, ReadDocPagePositions(m.docIdx, m.pageIdx),
                 ReadDocPageText(m.docIdx, m.pageIdx))

\* getPdfMatch(hit)
getPdfMatch(hit) == pageMatch(getMatch(hit))

PdfMatchSet(totalMatches, matches, err) ==
  [TotalMatches |-> totalMatches, Matches |-> matches, err |-> err]

\* The loop of getPdfMatches over the hits, res being what getPdfMatch returns
\* for each of them: <<matches, err>>.  The loop ends at the first hit whose
\* error is not ErrNoMatch; reading a page changes nothing, so the hits after
\* it can be resolved as well.
matchHits(res) ==
  LET failed == {i \in 1..Len(res) : res[i].err \notin {NoErr, ErrNoMatch}}
      first == CHOOSE i \in failed : \A j \in failed : i <= j
      kept(pm) == pm.err = NoErr
  IN IF failed # {} THEN <<<<>>, res[first].err>> ELSE <<SelectSeq(res, kept), NoErr>>

\* What getPdfMatches returns after its loop.
matchSet(total, r) ==
  IF r[2] # NoErr THEN PdfMatchSet(0, <<>>, r[2]) ELSE PdfMatchSet(total, r[1], NoErr)

\* getPdfMatches counting the matches it keeps.
getPdfMatchesKept(sr, res) ==
  IF sr.Total > 0 /\ sr.Size > 0
  THEN matchSet(Len(SelectSeq(res, LAMBDA pm : pm.err = NoErr)), matchHits(res))
  ELSE PdfMatchSet(Len(SelectSeq(res, LAMBDA pm : pm.err = NoErr)), <<>>, NoErr)

\* getPdfMatches(sr), res being what getPdfMatch returns for the hits of sr.
getPdfMatches(sr, res) ==
  IF sr.Total > 0 /\ sr.Size > 0 THEN matchSet(sr.Total, matchHits(res))
  ELSE PdfMatchSet(sr.Total, <<>>, NoErr)

\* SearchIndex(lState, index, term, maxResults), sr being what index.Search
\* returns for the term.
SearchIndex(sr) ==
  IF StoreLen = 0 THEN PdfMatchSet(0, <<>>, ErrEmptyStore)
  ELSE IF Len(sr.Hits) = 0 THEN PdfMatchSet(0, <<>>, NoErr)
  ELSE getPdfMatches(sr, [i \in 1..Len(sr.Hits) |-> getPdfMatch(sr.Hits[i])])

\* PdfMatchSet.Files(): the paths of the matches, each once, in order.
RECURSIVE Files(_, _)
Files(matches, files) ==
  IF matches = <<>> THEN files
  ELSE IF \E i \in 1..Len(files) : files[i] = Head(matches).InPath
  THEN Files(Tail(matches), files)
  ELSE Files(Tail(matches), Append(files, Head(matches).InPath))

\* What index.Search can return: hits for pages the index holds, no page
\* twice, and a total that counts the hits beyond maxResults as well.
Hits == {DocumentMatch(Sprintf04Xd(e[1], e[2]), l) : e \in index, l \in HitLocations}

HitLists ==
  UNION {{hits \in [1..n -> Hits] :
            \A i, j \in 1..n : i # j => hits[i].ID # hits[j].ID} : n \in 0..MaxHits}

SearchResults ==
  {[Hits |-> hits, Total |-> Len(hits) + more, Size |-> MaxHits] :
     hits \in HitLists, more \in 0..1}

\* What is known of a search after it: the store it ran on, what
\* getPdfMatch gave for each hit when the hits were looked at, the match set
\* and its Files().
SearchRecord(sr, res, r) ==
  [fn |-> "SearchIndex", sr |-> sr, storeLen |-> StoreLen, hashPath |-> hashPath,
   perHit |-> IF StoreLen > 0 /\ sr.Total > 0 /\ sr.Size > 0 THEN res ELSE <<>>,
   result |-> r, files |-> Files(r.Matches, <<>>)]

\* A reader searches.  A panic ends the reader.
SearchCall(sr) ==
  /\ drv.pc = "idle"
  /\ call' = SearchRecord(sr, [i \in 1..Len(sr.Hits) |-> getPdfMatch(sr.Hits[i])],
                          SearchIndex(sr))
  /\ drv' = IF call'.result.err = ErrPanic THEN [drv EXCEPT !.pc = "crashed"] ELSE drv
  /\ UNCHANGED <<root, fileList, hashIndex, indexHash, hashPath, hashDoc, ctor, lDoc,
                 disk, ExposeErrors, index, nSubmit, lastCreate, addLog, assigned, q>>

NoQueue == [kind |-> "none"]

NoCall == [fn |-> "none"]

Init ==
  /\ root \in Roots
  /\ fileList = <<>>
  /\ hashIndex = EmptyMap
  /\ indexHash = EmptyMap
  /\ hashPath = EmptyMap
  /\ hashDoc = EmptyMap
  /\ ctor = "open"
  /\ lDoc = NilDoc
  /\ disk = EmptyDisk
  /\ drv = IdleDrv
  /\ ExposeErrors \in BOOLEAN
  /\ index = {}
  /\ nSubmit = 0
  /\ lastCreate = NoCreate
  /\ addLog = <<>>
  /\ assigned = {}
  /\ q = NoQueue
  /\ call = NoCall

\* The steps that follow a submission, and the calls on the store.
StoreSteps ==
  \/ \E outcome \in PageOutcomes, dpl \in DriverDpls, io \in AddIo, closeIo \in CloseIo :
       ProcessPage(outcome, dpl, io, closeIo)
  \/ \E closeIo \in CloseIo : ExtractEnd(closeIo)
  \/ IndexDocPages
  \/ FlushCall
  \/ \E forceCreate \in BOOLEAN : OpenPositionsState(forceCreate)
  \/ FromHIPDsCall

\* Several documents, each of a few pages.
Submit ==
  /\ nSubmit < MaxSubmit
  /\ \E inPath \in InPaths, hash \in Hashes, open \in OpenOutcomes,
        numPages \in 0..StorePages, io \in CreateIo, closeIo \in CloseIo,
        flushDue \in BOOLEAN :
       ExtractBegin(inPath, hash, open, numPages, io, closeIo, flushDue)

\* Few documents, each of several pages.
SubmitDriver ==
  /\ nSubmit < DrvSubmit
  /\ \E inPath \in InPaths, hash \in Hashes, open \in OpenOutcomes,
        numPages \in 0..MaxPages, io \in CreateIo, closeIo \in CloseIo,
        flushDue \in BOOLEAN :
       ExtractBegin(inPath, hash, open, numPages, io, closeIo, flushDue)

\* One document, read back.
SubmitRead ==
  /\ nSubmit < ReadSubmit
  /\ \E inPath \in InPaths, hash \in Hashes, open \in OpenOutcomes,
        numPages \in 0..ReadPages, io \in CreateIo, closeIo \in CloseIo,
        flushDue \in BOOLEAN :
       ExtractBegin(inPath, hash, open, numPages, io, closeIo, flushDue)

ReadSteps ==
  \/ \E docIdx \in 0..ReadSubmit, pageIdx \in 0..MaxPageIdx :
       ReadDocPagePositionsCall(docIdx, pageIdx)
  \/ \E docIdx \in 0..ReadSubmit, pageIdx \in 0..MaxPageIdx :
       ReadDocPageTextCall(docIdx, pageIdx)
  \/ \E hash \in Hashes, pos \in 1..MaxDat : Corrupt(hash, pos)

Next == Submit \/ StoreSteps

NextRead == SubmitRead \/ StoreSteps \/ ReadSteps

SubmitSearch ==
  /\ nSubmit < SearchSubmit
  /\ \E inPath \in InPaths, hash \in Hashes, open \in OpenOutcomes,
        numPages \in 0..SearchPages, io \in CreateIo, closeIo \in CloseIo,
        flushDue \in BOOLEAN :
       ExtractBegin(inPath, hash, open, numPages, io, closeIo, flushDue)

NextSearch == SubmitSearch \/ StoreSteps \/ \E sr \in SearchResults : SearchCall(sr)

NextDriver == SubmitDriver \/ StoreSteps

\* ------------------------------------------------------------ a direct caller
\* CreatePositionsDoc called by the owner of the store.
DocCreate(inPath, hash, io) ==
  LET fd == FileDesc(inPath, hash)
      r == CreatePositionsDoc(fd, disk, io, FALSE)
  IN /\ drv.pc = "idle"
     /\ ~lDoc.live
     /\ fileList = <<>>
     /\ (isMem => io = "ok")
     /\ nSubmit' = nSubmit + 1
     /\ lastCreate' = [hash |-> hash, inPath |-> inPath,
                       exists |-> hash \in HashesOf(fileList),
                       lenBefore |-> StoreLen, err |-> r[3]]
     /\ addFile(fd)
     /\ assigned' = assigned \cup {<<i, indexHash'[i]>> : i \in DOMAIN indexHash'}
     /\ lDoc' = r[1]
     /\ disk' = r[2]
     /\ addLog' = <<>>
     /\ UNCHANGED <<root, ctor, hashDoc, drv, ExposeErrors, index, q, call>>

\* AddDocPage called on the handle. A panic ends the caller.
DocAddPage(pageNum, dpl, io) ==
  LET a == AddDocPage(lDoc, disk, pageNum, dpl, PageText, io)
  IN /\ drv.pc = "idle"
     /\ lDoc.live
     /\ lDoc.mem \/ lDoc.fileOpen
     /\ Len(addLog) < MaxAdds
     /\ (lDoc.mem \/ pageNum = 0 => io = "ok")
     /\ lDoc' = a[1]
     /\ disk' = a[2]
     /\ addLog' = Append(addLog, [pageNum |-> pageNum, idx |-> a[3], err |-> a[4]])
     /\ drv' = IF a[4] = ErrPanic THEN [drv EXCEPT !.pc = "crashed"] ELSE drv
     /\ UNCHANGED <<root, fileList, hashIndex, indexHash, hashPath, hashDoc, ctor,
                    ExposeErrors, index, nSubmit, lastCreate, assigned, q, call>>

\* Close called on the handle.
DocClose(io) ==
  LET c == Close(lDoc, disk, io)
  IN /\ drv.pc = "idle"
     /\ lDoc.live
     /\ (lDoc.mem => io = "ok")
     /\ lDoc' = c[1]
     /\ disk' = c[2]
     /\ call' = [fn |-> "Close", hash |-> lDoc.hash, err |-> c[3],
                 second |-> call.fn = "Close" /\ call.err = NoErr /\ call.hash = lDoc.hash,
                 diskSame |-> c[2] = disk]
     /\ UNCHANGED <<root, fileList, hashIndex, indexHash, hashPath, hashDoc, ctor,
                    drv, ExposeErrors, index, nSubmit, lastCreate, addLog, assigned, q>>

NextDoc ==
  \/ \E inPath \in InPaths, hash \in Hashes, io \in CreateIo : DocCreate(inPath, hash, io)
  \/ \E pageNum \in 0..MaxPageNum, dpl \in Dpls, io \in AddIo : DocAddPage(pageNum, dpl, io)
  \/ \E io \in CloseIo : DocClose(io)

Spec == Init /\ [][Next]_vars

SpecDriver == Init /\ [][NextDriver]_vars

SpecDoc == Init /\ [][NextDoc]_vars

SpecRead == Init /\ [][NextRead]_vars

SpecSearch == Init /\ [][NextSearch]_vars

\* ------------------------------------------------------------ pure functions
\* The functions of the search that depend on their arguments only.  A
\* behaviour starts with the arguments of one call and its one step makes the
\* call.
Chars == {"a", "\n"}

Texts == UNION {[1..n -> Chars] : n \in 0..MaxText}

\* Bounding boxes of text runs: <<Llx, Lly, Urx, Ury>>.
Boxes == {<<1, 1, 2, 2>>, <<0, 1, 3, 2>>, <<1, 0, 2, 3>>}

\* Run k of a page covers the offsets [RunLen * (k - 1), RunLen * k).
RunLists ==
  UNION {{[k \in 1..n |-> TextLocation(RunLen * (k - 1), RunLen * k, b[k][1], b[k][2],
                                        b[k][3], b[k][4])] : b \in [1..n -> Boxes]}
         : n \in 0..MaxRuns}

DocIdxs == 0..MaxIdx \cup {255, 256, 4095, 4096, 43981, 65535, 65536, 1048576}

PageIdxs == 0..MaxIdx \cup {99, 100, 4095, 65536}

\* The DocPageLocations given to the encoder: runs as a page has them, and
\* one run whose End is zero.
RoundtripDpls ==
  {DocPageLocations(doc, page, locs) :
     doc \in 0..MaxDplDoc, page \in 1..MaxDplPage,
     locs \in RunLists \cup {<<TextLocation(0, 0, 1, 1, 2, 2)>>}}

FnArgs ==
  {[fn |-> "decodeID", done |-> FALSE, docIdx |-> docIdx, pageIdx |-> pageIdx] :
     docIdx \in DocIdxs, pageIdx \in PageIdxs}
  \cup {[fn |-> "getLineNumber", done |-> FALSE, text |-> a[1], offset |-> a[2]] :
           a \in {b \in Texts \X (0..MaxText) : b[2] < Len(b[1])}}
  \cup {[fn |-> "GetPosition", done |-> FALSE, positions |-> a[1], start |-> a[2],
          end |-> a[3]] :
           a \in {b \in RunLists \X (0..RunLen * MaxRuns) \X (0..RunLen * MaxRuns) :
                    b[2] <= b[3] /\ b[3] <= RunLen * Len(b[1])}}
  \cup {[fn |-> "Roundtrip", done |-> FALSE, dpl |-> dpl] : dpl \in RoundtripDpls}

fnFrame == UNCHANGED <<root, fileList, hashIndex, indexHash, hashPath, hashDoc, ctor, lDoc,
                       disk, drv, ExposeErrors, index, nSubmit, lastCreate, addLog,
                       assigned, q>>

decodeIDCall ==
  /\ call.fn = "decodeID" /\ ~call.done
  /\ LET id == Sprintf04Xd(call.docIdx, call.pageIdx)
     IN call' = [fn |-> "decodeID", done |-> TRUE, docIdx |-> call.docIdx,
                 pageIdx |-> call.pageIdx, id |-> id, result |-> decodeID(id)]
  /\ fnFrame

getLineNumberCall ==
  /\ call.fn = "getLineNumber" /\ ~call.done
  /\ call' = [fn |-> "getLineNumber", done |-> TRUE, text |-> call.text,
              offset |-> call.offset, result |-> getLineNumber(call.text, call.offset)]
  /\ fnFrame

\* ReadDocPageLocations(MakeDocPageLocations(b, dpl))
RoundtripCall ==
  /\ call.fn = "Roundtrip" /\ ~call.done
  /\ call' = [fn |-> "Roundtrip", done |-> TRUE, dpl |-> call.dpl,
              buf |-> MakeDocPageLocationsTable(call.dpl),
              result |-> ReadDocPageLocationsTable(MakeDocPageLocationsTable(call.dpl))]
  /\ fnFrame

GetPositionCall ==
  /\ call.fn = "GetPosition" /\ ~call.done
  /\ call' = [fn |-> "GetPosition", done |-> TRUE, positions |-> call.positions,
              start |-> call.start, end |-> call.end,
              panicked |-> GetPositionPanics(call.positions, call.start, call.end),
              result |-> IF GetPositionPanics(call.positions, call.start, call.end)
                         THEN NoTextLocation
                         ELSE GetPosition(call.positions, call.start, call.end)]
  /\ fnFrame

InitFn ==
  /\ root = ""
  /\ fileList = <<>>
  /\ hashIndex = EmptyMap
  /\ indexHash = EmptyMap
  /\ hashPath = EmptyMap
  /\ hashDoc = EmptyMap
  /\ ctor = "open"
  /\ lDoc = NilDoc
  /\ disk = EmptyDisk
  /\ drv = IdleDrv
  /\ ExposeErrors = FALSE
  /\ index = {}
  /\ nSubmit = 0
  /\ lastCreate = NoCreate
  /\ addLog = <<>>
  /\ assigned = {}
  /\ q = NoQueue
  /\ call \in FnArgs

NextFn == decodeIDCall \/ getLineNumberCall \/ GetPositionCall \/ RoundtripCall

SpecFn == InitFn /\ [][NextFn]_vars

(***************************************************************************)
(* The concurrent extraction queues.  Every channel of the queues is       *)
(* unbuffered, so a send and its receive are one step taken by the two     *)
(* goroutines together; a goroutine whose pc names a send is blocked on    *)
(* it.  The results channel of the document queue is the one its caller    *)
(* makes, with room for one result per document.                           *)
(***************************************************************************)
ErrExtract == "extract"

\* A PDF given to a queue: its page count, the page whose text extraction
\* fails and the page with no text (0: no such page), among the pages the
\* page loop reads.
QueuePdfs ==
  {p \in [numPages : 0..MaxQPages, fail : 0..MaxQPages, empty : 0..MaxQPages] :
      /\ (p.fail = 0 \/ MorePages(p.fail, p.numPages))
      /\ (p.empty = 0 \/ MorePages(p.empty, p.numPages))
      /\ (p.fail = p.empty => p.fail = 0)}

\* pathList: the documents the caller queues, in order.
PathLists == UNION {[1..n -> QueuePdfs] : n \in 0..MaxJobs}

Workers == 1..MaxWorkers

\* The goroutines of a queue program: the caller's loop, Complete (run by
\* the caller) and the workers.
MainTask == [task |-> "main", id |-> 0]

CompleteTask == [task |-> "Complete", id |-> 0]

WorkerTask(w) == [task |-> "worker", id |-> w]

\* A call of index.Index made by the task "by" for a page of work item job.
IndexCall(by, job, page) == [by |-> by, job |-> job, page |-> page]

\* ---- the page-granularity queue (utils/concurrent_extract_text_page.go)
\* A worker goroutine at the top of the loop of extractPageWorker.
IdlePageWorker ==
  [pc |-> "select", job |-> 0, pageNum |-> 0, pagesDone |-> <<>>, err |-> NoErr]

\* The goroutine extract starts to forward docPages to results.
NoHelper == [pc |-> "none", page |-> 0, done |-> FALSE]

NoCompletion == [made |-> FALSE, Pages |-> <<>>, Err |-> NoErr]

\* NewExtractPageQueue(numWorkers), and Complete(len(pathList), completeJob)
\* entered by the caller.
NewExtractPageQueue(pathList) ==
  [kind |-> "page", pathList |-> pathList, next |-> 1, done |-> FALSE,
   worker |-> [w \in Workers |-> IdlePageWorker],
   helper |-> [j \in 1..Len(pathList) |-> NoHelper],
   completion |-> [j \in 1..Len(pathList) |-> NoCompletion],
   complete |-> [pc |-> "select", numJobs |-> Len(pathList), numJobsDone |-> 0,
                 numPagesDone |-> 0, numPages |-> 0, byDone |-> FALSE],
   completed |-> EmptyBag]

\* A test that looks at the count of JobCompletions only.
CompleteTestJobsOnly(c) ==
  IF c.numJobsDone = c.numJobs
  THEN [c EXCEPT !.pc = "returned"] ELSE c

\* The test at the bottom of the loop of Complete.
CompleteTest(c) ==
  IF c.numJobsDone = c.numJobs /\ c.numPagesDone = c.numPages
  THEN [c EXCEPT !.pc = "returned"] ELSE c

\* ExtractDocPagesChan returns (pagesDone, err): extract closes done and
\* returns the JobCompletion, which the worker goes on to send.
PageJobDone(w, err) ==
  LET j == q.worker[w].job
  IN q' = [q EXCEPT !.worker[w].pc = "sendDoc",
                    !.worker[w].err = err,
                    !.helper[j].done = TRUE,
                    !.completion[j] = [made |-> TRUE, Pages |-> q.worker[w].pagesDone,
                                       Err |-> err]]

queueFrame ==
  UNCHANGED <<root, fileList, hashIndex, indexHash, hashPath, hashDoc, ctor, lDoc, disk,
              drv, ExposeErrors, index, nSubmit, lastCreate, addLog, assigned, call>>

\* case w := <-q.workQueue, with the feeder blocked in Queue(w); the worker
\* calls w.extract, which starts the helper goroutine.
extractPageWorkerTake(w) ==
  /\ q.kind = "page"
  /\ q.worker[w].pc = "select"
  /\ q.next <= Len(q.pathList)
  /\ q' = [q EXCEPT !.next = q.next + 1,
                    !.worker[w] = [IdlePageWorker EXCEPT !.pc = "extract", !.job = q.next,
                                                         !.pageNum = 1],
                    !.helper[q.next] = [NoHelper EXCEPT !.pc = "select"]]
  /\ queueFrame

\* case <-q.done: return
extractPageWorkerExit(w) ==
  /\ q.kind = "page"
  /\ q.worker[w].pc = "select"
  /\ q.done
  /\ q' = [q EXCEPT !.worker[w].pc = "exited"]
  /\ queueFrame

\* One turn of the page loop under ExtractDocPagesChan, up to its send.
ExtractDocPagesChan(w) ==
  /\ q.kind = "page"
  /\ q.worker[w].pc = "extract"
  /\ LET pdf == q.pathList[q.worker[w].job]
         pageNum == q.worker[w].pageNum
     IN IF ~MorePages(pageNum, pdf.numPages) THEN PageJobDone(w, NoErr)
        ELSE IF pdf.fail = pageNum THEN PageJobDone(w, ErrExtract)
        ELSE IF pdf.empty = pageNum
             THEN q' = [q EXCEPT !.worker[w].pageNum = pageNum + 1]
        ELSE q' = [q EXCEPT !.worker[w].pc = "sendPage"]
  /\ queueFrame

\* docPages <- PdfPage{...} in ExtractDocPagesChan, with case p := <-docPages
\* in the helper.
docPagesSend(w) ==
  /\ q.kind = "page"
  /\ q.worker[w].pc = "sendPage"
  /\ LET j == q.worker[w].job
         pageNum == q.worker[w].pageNum
     IN /\ q.helper[j].pc = "select"
        /\ q' = [q EXCEPT !.worker[w].pc = "extract",
                          !.worker[w].pagesDone = Append(q.worker[w].pagesDone, pageNum),
                          !.worker[w].pageNum = pageNum + 1,
                          !.helper[j].pc = "send",
                          !.helper[j].page = pageNum]
  /\ queueFrame

\* case <-done: return, in the helper.
helperExit(j) ==
  /\ q.kind = "page"
  /\ j \in DOMAIN q.helper
  /\ q.helper[j].pc = "select"
  /\ q.helper[j].done
  /\ q' = [q EXCEPT !.helper[j].pc = "exited"]
  /\ queueFrame

\* case p := <-q.pageDoneQueue in Complete, with results <- r in the helper.
CompletePage(j) ==
  /\ q.kind = "page"
  /\ j \in DOMAIN q.helper
  /\ q.complete.pc = "select"
  /\ q.helper[j].pc = "send"
  /\ q' = [q EXCEPT !.helper[j].pc = "select",
                    !.completed = q.completed (+)
                       SetToBag({IndexCall(CompleteTask, j, q.helper[j].page)}),
                    !.complete = CompleteTest([q.complete EXCEPT
                                                 !.numPagesDone = q.complete.numPagesDone + 1])]
  /\ queueFrame

\* case d := <-q.docDoneQueue in Complete, with q.docDoneQueue <- d in the worker.
CompleteDoc(w) ==
  /\ q.kind = "page"
  /\ q.complete.pc = "select"
  /\ q.worker[w].pc = "sendDoc"
  /\ q' = [q EXCEPT !.worker[w].pc = "select",
                    !.complete = CompleteTest([q.complete EXCEPT
                        !.numJobsDone = q.complete.numJobsDone + 1,
                        !.numPages = q.complete.numPages + Len(q.worker[w].pagesDone)])]
  /\ queueFrame

\* case <-q.done: return, in Complete.
CompleteDone ==
  /\ q.kind = "page"
  /\ q.complete.pc = "select"
  /\ q.done
  /\ q' = [q EXCEPT !.complete.pc = "returned", !.complete.byDone = TRUE]
  /\ queueFrame

\* Close: close(q.done).  The examples call it once the results are in; it
\* is a method of the queue, and its caller may shut the workers down at any
\* time.
QueueClose ==
  /\ q.kind \in {"page", "doc"}
  /\ q.kind = "doc" => ~q.crashed
  /\ ~q.done
  /\ q' = [q EXCEPT !.done = TRUE]
  /\ queueFrame

\* ---- the document-granularity queue (doclib/positions_search.go)
IdleDocWorker ==
  [pc |-> "select", job |-> 0, docPages |-> <<>>, err |-> NoErr, isNil |-> FALSE]

\* NewExtractDocQueue(numWorkers) and resultChan, made by the caller with
\* capacity len(pathList).
\* recovers tells the two versions of extract apart: the one of
\* examples/concurrent_index.go defers a recover(), the one of doclib does not.
\* crashed: a panic has reached the top of a goroutine and ended the process.
NewExtractDocQueue(pathList, recovers) ==
  [kind |-> "doc", pathList |-> pathList, next |-> 1, done |-> FALSE,
   worker |-> [w \in Workers |-> IdleDocWorker],
   rc |-> <<>>, numDone |-> 0, results |-> <<>>,
   recovers |-> recovers, crashed |-> FALSE, indexCalls |-> <<>>]

\* ExtractDocPages: the pages appended up to page pageNum, and the error.
RECURSIVE ExtractDocPages(_, _, _)
ExtractDocPages(pdf, pageNum, docPages) ==
  IF ~MorePages(pageNum, pdf.numPages) THEN <<docPages, NoErr>>
  ELSE IF pdf.fail = pageNum THEN <<docPages, ErrExtract>>
  ELSE IF pdf.empty = pageNum THEN ExtractDocPages(pdf, pageNum + 1, docPages)
  ELSE ExtractDocPages(pdf, pageNum + 1, Append(docPages, pageNum))

\* case w := <-q.queue, with the feeder blocked in Queue(w).
extractDocWorkerTake(w) ==
  /\ q.kind = "doc"
  /\ ~q.crashed
  /\ q.worker[w].pc = "select"
  /\ q.next <= Len(q.pathList)
  /\ q' = [q EXCEPT !.next = q.next + 1,
                    !.worker[w] = [IdleDocWorker EXCEPT !.pc = "extract", !.job = q.next]]
  /\ queueFrame

\* case <-q.done: return
extractDocWorkerExit(w) ==
  /\ q.kind = "doc"
  /\ ~q.crashed
  /\ q.worker[w].pc = "select"
  /\ q.done
  /\ q' = [q EXCEPT !.worker[w].pc = "exited"]
  /\ queueFrame

\* r := w.extract().  The extraction may panic inside the PDF library.
\* Without a recover the panic ends the process.  With the deferred recover
\* of concurrent_index.go, extract returns after the panic without having
\* executed "return &result": its unnamed result is the nil pointer.
extractDoc(w) ==
  /\ q.kind = "doc"
  /\ ~q.crashed
  /\ q.worker[w].pc = "extract"
  /\ \E aborts \in BOOLEAN :
       LET r == ExtractDocPages(q.pathList[q.worker[w].job], 1, <<>>)
       IN IF ~aborts
          THEN q' = [q EXCEPT !.worker[w].pc = "send",
                              !.worker[w].docPages = r[1],
                              !.worker[w].err = r[2]]
          ELSE IF q.recovers
          THEN q' = [q EXCEPT !.worker[w].pc = "send",
                              !.worker[w].isNil = TRUE]
          ELSE q' = [q EXCEPT !.crashed = TRUE]
  /\ queueFrame

\* A worker that puts the pages in the index itself before it sends.
rcSendIndexing(w) ==
  /\ q.kind = "doc"
  /\ ~q.crashed
  /\ q.worker[w].pc = "send"
  /\ Len(q.rc) < Len(q.pathList)
  /\ q' = [q EXCEPT !.worker[w] = IdleDocWorker,
                    !.rc = Append(q.rc, [job |-> q.worker[w].job,
                                        docPages |-> q.worker[w].docPages,
                                        err |-> q.worker[w].err,
                                        isNil |-> q.worker[w].isNil,
                                        from |-> w]),
                    !.indexCalls = q.indexCalls \o
                       [i \in 1..Len(q.worker[w].docPages) |->
                          IndexCall(WorkerTask(w), q.worker[w].job, q.worker[w].docPages[i])]]
  /\ queueFrame

\* w.rc <- r
rcSend(w) ==
  /\ q.kind = "doc"
  /\ ~q.crashed
  /\ q.worker[w].pc = "send"
  /\ Len(q.rc) < Len(q.pathList)
  /\ q' = [q EXCEPT !.worker[w] = IdleDocWorker,
                    !.rc = Append(q.rc, [job |-> q.worker[w].job,
                                        docPages |-> q.worker[w].docPages,
                                        err |-> q.worker[w].err,
                                        isNil |-> q.worker[w].isNil,
                                        from |-> w])]
  /\ queueFrame

\* result := <-resultChan in the caller's loop over numDone, and the loop
\* over result.docPages with its index.Index calls, made by the caller
\* ("main").  result.docPages of a nil result is a nil pointer dereference.
rcReceive ==
  /\ q.kind = "doc"
  /\ ~q.crashed
  /\ q.numDone < Len(q.pathList)
  /\ q.rc # <<>>
  /\ IF Head(q.rc).isNil
     THEN q' = [q EXCEPT !.rc = Tail(q.rc), !.crashed = TRUE]
     ELSE q' = [q EXCEPT !.rc = Tail(q.rc),
                         !.numDone = q.numDone + 1,
                         !.results = Append(q.results, Head(q.rc)),
                         !.indexCalls = q.indexCalls \o
                            [i \in 1..Len(Head(q.rc).docPages) |->
                               IndexCall(MainTask, Head(q.rc).job, Head(q.rc).docPages[i])]]
  /\ queueFrame

\* The state a queue program starts in.
InitQueue(queue) ==
  /\ root = ""
  /\ fileList = <<>>
  /\ hashIndex = EmptyMap
  /\ indexHash = EmptyMap
  /\ hashPath = EmptyMap
  /\ hashDoc = EmptyMap
  /\ ctor = "open"
  /\ lDoc = NilDoc
  /\ disk = EmptyDisk
  /\ drv = IdleDrv
  /\ ExposeErrors = FALSE
  /\ index = {}
  /\ nSubmit = 0
  /\ lastCreate = NoCreate
  /\ addLog = <<>>
  /\ assigned = {}
  /\ q = queue
  /\ call = NoCall

InitPage == \E pathList \in PathLists : InitQueue(NewExtractPageQueue(pathList))

InitDocQ ==
  \E pathList \in PathLists, recovers \in BOOLEAN :
    InitQueue(NewExtractDocQueue(pathList, recovers))

NextPage ==
  \/ \E w \in Workers : extractPageWorkerTake(w)
  \/ \E w \in Workers : extractPageWorkerExit(w)
  \/ \E w \in Workers : ExtractDocPagesChan(w)
  \/ \E w \in Workers : docPagesSend(w)
  \/ \E j \in 1..MaxJobs : helperExit(j)
  \/ \E j \in 1..MaxJobs : CompletePage(j)
  \/ \E w \in Workers : CompleteDoc(w)
  \/ CompleteDone
  \/ QueueClose

NextDocQ ==
  \/ \E w \in Workers : extractDocWorkerTake(w)
  \/ \E w \in Workers : extractDocWorkerExit(w)
  \/ \E w \in Workers : extractDoc(w)
  \/ \E w \in Workers : rcSend(w)
  \/ rcReceive
  \/ QueueClose

SpecPage == InitPage /\ [][NextPage]_vars

SpecDocQ == InitDocQ /\ [][NextDocQ]_vars

\* Both pipelines: a program runs one of them.
InitQueues == InitPage \/ InitDocQ

NextQueues == NextPage \/ NextDocQ

SpecQueues == InitQueues /\ [][NextQueues]_vars

(***************************************************************************)
(* The claims.                                                             *)
(***************************************************************************)
RECURSIVE Successes(_)
\* The successful calls of a log of AddDocPage calls, in call order.
Successes(log) ==
  IF log = <<>> THEN <<>>
  ELSE IF Head(log).err = NoErr THEN <<Head(log)>> \o Successes(Tail(log))
       ELSE Successes(Tail(log))

\* C1: on one DocPositions, the j-th successful AddDocPage returns page index
\* j-1, and the page number recorded for that index is the one that call passed.
C1_IndicesInCallOrder ==
  lDoc.live =>
    LET ok == Successes(addLog)
    IN \A j \in 1..Len(ok) :
         /\ ok[j].idx = j - 1
         /\ j <= RecordedPages(lDoc)
         /\ RecordedPageNum(lDoc, j - 1) = ok[j].pageNum

\* C2: CreatePositionsDoc of a document whose hash is in the catalog fails with
\* the duplicate-PDF error and leaves Len() as it was.
C2_DuplicateRejected ==
  lastCreate.exists =>
    /\ lastCreate.err = ErrDuplicate
    /\ StoreLen = lastCreate.lenBefore

\* A duplicate has been submitted and the call has returned.
C2_Witness ==
  /\ lastCreate.exists
  /\ drv.pc = "returned"
  /\ StoreLen >= 1

\* C3: hashIndex, indexHash and hashPath agree with fileList, have no other
\* keys, and an index is never given to a second hash.
C3_MappingsAgree ==
  /\ DOMAIN indexHash = 0..StoreLen - 1
  /\ DOMAIN hashIndex = HashesOf(fileList)
  /\ DOMAIN hashPath = HashesOf(fileList)
  /\ \A i \in 0..StoreLen - 1 :
       /\ indexHash[i] = fileList[i + 1].Hash
       /\ hashIndex[fileList[i + 1].Hash] = i
       /\ hashPath[fileList[i + 1].Hash] = fileList[i + 1].InPath
  /\ \A a \in assigned, b \in assigned : a[1] = b[1] => a[2] = b[2]

\* C4: when the driver has gone through a PDF of N pages without an error, the
\* per-page step has run for the pages 1, 2, ..., N in this order.
C4_EveryPageProcessed ==
  (drv.pc = "returned" /\ drv.err = NoErr /\ ~drv.panicked /\ lDoc.live) =>
    drv.called = [k \in 1..drv.numPages |-> k]

\* C5: in the page-granularity queue Complete returns once the number of
\* JobCompletions received equals numJobs and the number of page results
\* processed equals the pages those JobCompletions report, for every
\* numJobs >= 0: Complete is never still waiting in its select with both
\* counts met.
C5_CompleteReturns ==
  (q.kind = "page" /\ q.complete.numJobsDone = q.complete.numJobs
                   /\ q.complete.numPagesDone = q.complete.numPages)
    => q.complete.pc = "returned"

\* C6: closing done while a result is being sent never leaves the sender
\* blocked forever: once Complete, the only receiver of the page results and
\* of the JobCompletions, has returned, no worker is blocked sending its
\* JobCompletion or a page and no helper goroutine is blocked sending a page
\* result.
C6_NoSenderStranded ==
  (q.kind = "page" /\ q.complete.pc = "returned")
    => /\ \A w \in Workers : q.worker[w].pc \notin {"sendDoc", "sendPage"}
       /\ \A j \in DOMAIN q.helper : q.helper[j].pc # "send"

\* C7: once done is closed no worker takes a work item from the work channel
\* (the feeder's position in pathList does not move), even with the feeder
\* still offering one.
C7_NoTakeAfterDone ==
  [][(q.kind = "doc" /\ q.done) => q'.next = q.next]_vars

\* C8: with ExposeErrors false, a panic of the parser or extractor does not end
\* the program and the driver returns an error for the document.
C8_PanicBecomesError ==
  (drv.panicked /\ ~ExposeErrors) =>
    /\ drv.pc # "crashed"
    /\ (drv.pc = "returned" => drv.err # NoErr)

\* C9: the j-th page the driver adds to a document gets page index j-1, in the
\* order of extraction, and a page that is skipped takes no index: while the
\* pages are processed the handle holds one page per record.
C9_NoIndexGaps ==
  /\ \A j \in 1..Len(drv.docPages) :
       /\ drv.docPages[j].PageIdx = j - 1
       /\ drv.docPages[j].PageNum = drv.good[j]
  /\ (drv.pc = "pages" => RecordedPages(lDoc) = Len(drv.docPages))

\* Page 1 was skipped and page 2 was added.
C9_Witness ==
  /\ Len(drv.docPages) >= 1
  /\ drv.docPages[1].PageNum = 2
  /\ drv.called = <<1, 2>>

\* C10: a page whose text extraction fails is skipped and the document is not
\* aborted: when ExtractDocPagesChan has returned for a document, every page
\* the page loop covers that has text and extracts without error is among
\* the pages it sent and reports.
C10_OtherPagesDelivered ==
  q.kind = "page" =>
    \A j \in DOMAIN q.completion :
      q.completion[j].made =>
        \A k \in 1..q.pathList[j].numPages :
          (MorePages(k, q.pathList[j].numPages) /\ k # q.pathList[j].fail
                                                /\ k # q.pathList[j].empty)
            => \E i \in 1..Len(q.completion[j].Pages) : q.completion[j].Pages[i] = k

C13_ZeroPageNumberReturned ==
  \A i \in 1..Len(addLog) :
    addLog[i].pageNum = 0 => (addLog[i].err \notin {NoErr, ErrPanic} /\ drv.pc # "crashed")

\* C12: when the bytes of the frame of a page no longer have the recorded
\* checksum, ReadPagePositions for that page returns the bad-checksum error
\* to its caller, and the read of a page whose frame is intact succeeds.
C12_BadChecksumReturned ==
  (call.fn = "ReadDocPagePositions" /\ call.facts.opened
                                    /\ call.pageIdx < call.facts.numPages)
    => IF call.facts.badFrame THEN call.err = ErrBadChecksum ELSE call.err = NoErr

\* C14: ReadPagePositions and ReadPageText called with a page index that is
\* not below the number of pages of the document return an error that says
\* the index is out of range (ErrRange, or the error for a bad page index),
\* in memory and on disk.
C14_OutOfRangeReturned ==
  (call.fn \in {"ReadDocPagePositions", "ReadDocPageText"}
     /\ call.facts.opened /\ call.pageIdx >= call.facts.numPages)
    => call.err \in {ErrRange, ErrBadPageIdx}

\* C15: for runs sorted by strictly increasing start and a range [start, end)
\* within the offsets the runs cover, the rectangle GetPosition returns
\* contains the bounding box of every run whose start is in [start, end).
C15_RectangleContainsRuns ==
  (call.fn = "GetPosition" /\ call.done) =>
    \A k \in 1..Len(call.positions) :
      (call.start <= call.positions[k].Start /\ call.positions[k].Start < call.end) =>
        /\ call.result.Llx <= call.positions[k].Llx
        /\ call.result.Lly <= call.positions[k].Lly
        /\ call.result.Urx >= call.positions[k].Urx
        /\ call.result.Ury >= call.positions[k].Ury

\* C16: for every text and every offset below its length, getLineNumber
\* succeeds and the line it returns includes the character at the offset and
\* holds no newline.
C16_LineIncludesOffset ==
  (call.fn = "getLineNumber" /\ call.done) =>
    /\ ~call.result.panicked
    /\ call.result.ok
    /\ call.result.lo <= call.offset /\ call.offset < call.result.hi
    /\ \A j \in 1..Len(call.result.line) : call.result.line[j] # "\n"

\* C17: decodeID of the identifier built from a document index and a page
\* index, the document index in upper-case hexadecimal of at least 4 digits,
\* a dot, the page index in decimal, returns the two indices.
C17_DecodeIDRoundTrip ==
  (call.fn = "decodeID" /\ call.done) =>
    call.result = <<call.docIdx, call.pageIdx, TRUE>>

\* An identifier of more than 4 hexadecimal digits holding a letter, decoded.
C17_Witness ==
  /\ call.fn = "decodeID" /\ call.done
  /\ call.docIdx = 43981 /\ call.pageIdx = 100
  /\ call.id = <<"A", "B", "C", "D", ".", "1", "0", "0">>
  /\ call.result[3]


\* The hits of the last search that getPdfMatch resolved, in their order.
RECURSIVE Resolved(_)
Resolved(perHit) ==
  IF perHit = <<>> THEN <<>>
  ELSE IF Head(perHit).err = NoErr THEN <<Head(perHit)>> \o Resolved(Tail(perHit))
  ELSE Resolved(Tail(perHit))

\* C18: when getPdfMatch gives ErrNoMatch for a hit and resolves the other
\* hits, the search succeeds, Matches is the resolved hits in their order and
\* TotalMatches is the total of the index engine.
C18_NoMatchDropped ==
  (/\ call.fn = "SearchIndex"
   /\ \E i \in 1..Len(call.perHit) : call.perHit[i].err = ErrNoMatch
   /\ \A i \in 1..Len(call.perHit) : call.perHit[i].err \in {NoErr, ErrNoMatch})
    => /\ call.result.err = NoErr
       /\ call.result.Matches = Resolved(call.perHit)
       /\ call.result.TotalMatches = call.sr.Total

\* A search of two hits whose first is dropped and whose second is kept, the
\* total of the engine being larger than the number of hits.
C18_Witness ==
  /\ call.fn = "SearchIndex"
  /\ Len(call.perHit) = 2
  /\ call.perHit[1].err = ErrNoMatch /\ call.perHit[2].err = NoErr
  /\ Len(call.result.Matches) = 1
  /\ call.sr.Total = 3

\* C19: a search of a store that holds no document succeeds with
\* TotalMatches = 0 and no match.
C19_EmptyStoreSearch ==
  (call.fn = "SearchIndex" /\ call.storeLen = 0) =>
    /\ call.result.err = NoErr
    /\ call.result.TotalMatches = 0
    /\ call.result.Matches = <<>>


\* C20: a document is in the catalog under one path and its bytes are
\* submitted under another path: the submission is rejected and changes no
\* entry of the catalog, and a page of the document read afterwards is
\* reported under the first path.
C20_DuplicateKeepsPath ==
  [][(nSubmit' = nSubmit + 1 /\ lastCreate'.exists) =>
       \A h \in DOMAIN hashPath :
         (lastCreate'.hash = h /\ lastCreate'.inPath # hashPath[h])
           => /\ lastCreate'.err = ErrDuplicate
              /\ fileList' = fileList
              /\ hashIndex' = hashIndex
              /\ indexHash' = indexHash
              /\ hashPath' = hashPath
              /\ fileList'[hashIndex'[h] + 1].InPath = hashPath[h]
              /\ (LET r == ReadDocPagePositions(hashIndex[h], 0)
                  IN r[4] = NoErr => r[1] = hashPath[h])']_vars

\* A submission under a second path has been rejected as a duplicate.
C20_Witness ==
  /\ lastCreate.exists
  /\ lastCreate.err = ErrDuplicate
  /\ lastCreate.hash \in DOMAIN hashPath
  /\ lastCreate.inPath # hashPath[lastCreate.hash]
  /\ drv.pc = "returned"


\* C21: a Close that follows a successful Close of the same DocPositions
\* succeeds too and leaves the files of the document as they were.
C21_CloseIdempotent ==
  (call.fn = "Close" /\ call.second) => (call.err = NoErr /\ call.diskSame)


\* C22: in a persistent store, from CreatePositionsDoc until a page of the
\* document has been added successfully, the positions directory, the data
\* file of the document and its page-text directory do not exist.
C22_NothingCreatedBeforeAdd ==
  (/\ ~isMem
   /\ lastCreate.hash \in Hashes
   /\ lastCreate.err = NoErr
   /\ Successes(addLog) = <<>>)
    => /\ ~disk.positionsDir
       /\ ~disk.docs[lastCreate.hash].datExists
       /\ ~disk.docs[lastCreate.hash].textDir

\* C29: an AddDocPage that returns an error leaves the number of pages the
\* handle records as it was.
C29_FailedAddKeepsCount ==
  [][(/\ Len(addLog') = Len(addLog) + 1
      /\ addLog'[Len(addLog')].err \notin {NoErr, ErrPanic})
       => RecordedPages(lDoc') = RecordedPages(lDoc)]_vars

\* C23: OpenPositionsState(root, true) removes an existing root directory only
\* if the directory holds file_list.json or the path of that file has the
\* "store." prefix; in every other case the call returns an error and the
\* directory and everything under it are as they were.
C23_ForceCreateRemoval ==
  (call.fn = "OpenPositionsState" /\ call.forceCreate /\ call.hadRoot) =>
    /\ call.removed => (call.sentinel \/ HasPrefix(fileListPath, StorePrefix))
    /\ ~(call.sentinel \/ HasPrefix(fileListPath, StorePrefix))
         => (call.err # NoErr /\ call.diskSame)

\* A forced open was refused: the directory exists, has no file_list.json and
\* its name has no safe prefix.
C23_Witness ==
  /\ call.fn = "OpenPositionsState"
  /\ call.forceCreate
  /\ call.hadRoot
  /\ ~call.sentinel
  /\ root = "store"
  /\ call.err = ErrNotAStore
  /\ disk.rootExists

\* C26: for a range [start, end), GetPosition returns the all-zero rectangle,
\* and does return, whenever no run starts at or after end or no run starts at
\* or after start; a page with no runs at all is one such case.
C26_ZeroRectangleOutOfRange ==
  (/\ call.fn = "GetPosition" /\ call.done
   /\ \/ \A k \in 1..Len(call.positions) : call.positions[k].Start < call.end
      \/ \A k \in 1..Len(call.positions) : call.positions[k].Start < call.start)
    => (~call.panicked /\ call.result = ZeroTextLocation)

\* The results sent for work item j: those waiting in the response channel
\* and those the caller has received.
ResultsFor(j) ==
  {i \in 1..Len(q.rc) : q.rc[i].job = j} \cup
  {Len(q.rc) + i : i \in {k \in 1..Len(q.results) : q.results[k].job = j}}

\* C24: in the document queue every work item a worker has taken and is done
\* with has exactly one ExtractDocResult on the response channel or with the
\* caller, whether the extraction succeeded, failed or aborted, and the
\* caller that waits for one result per document stays alive until it has
\* received len(pathList) results.
C24_OneResultPerItem ==
  q.kind = "doc" =>
    /\ ~q.crashed
    /\ \A i \in 1..Len(q.rc) : ~q.rc[i].isNil
    /\ \A j \in 1..q.next - 1 :
         IF \E w \in Workers : q.worker[w].job = j /\ q.worker[w].pc \in {"extract", "send"}
         THEN ResultsFor(j) = {}
         ELSE Cardinality(ResultsFor(j)) = 1
    /\ q.numDone = Len(q.results)

\* The tasks that have called the index.
IndexCallers ==
  IF q.kind = "doc" THEN {q.indexCalls[i].by : i \in 1..Len(q.indexCalls)}
  ELSE IF q.kind = "page" THEN {c.by : c \in BagToSet(q.completed)}
  ELSE {}

\* C25: in both pipelines every call of the index is made by one task, the
\* caller's loop ("main") in the document queue and Complete in the page
\* queue; no worker calls the index.
C25_OneIndexingTask ==
  /\ q.kind = "doc" => IndexCallers \subseteq {MainTask}
  /\ q.kind = "page" => IndexCallers \subseteq {CompleteTask}
  /\ \A t \in IndexCallers : t.task # "worker"

\* Pages of two documents, extracted by two workers, are in the index.
C25_Witness ==
  /\ q.kind = "doc"
  /\ Len(q.results) = 2
  /\ q.results[1].from # q.results[2].from
  /\ \E i, k \in 1..Len(q.indexCalls) : q.indexCalls[i].job # q.indexCalls[k].job

\* C30: in the page queue, when Complete has returned because its counts
\* matched (not because done was closed), every page the workers have sent
\* for the documents has been given to completeJob exactly once, and no
\* page result is still waiting to be received.
C30_AllPagesCompletedOnce ==
  (q.kind = "page" /\ q.complete.pc = "returned" /\ ~q.complete.byDone) =>
    /\ \A j \in DOMAIN q.helper : q.helper[j].pc # "send"
    /\ \A w \in Workers : q.worker[w].pc \notin {"sendPage", "sendDoc"}
    /\ \A j \in DOMAIN q.completion :
         /\ q.completion[j].made
         /\ \A i \in 1..Len(q.completion[j].Pages) :
              CopiesIn(IndexCall(CompleteTask, j, q.completion[j].Pages[i]), q.completed) = 1
    /\ \A c \in BagToSet(q.completed) :
         /\ CopiesIn(c, q.completed) = 1
         /\ \E i \in 1..Len(q.completion[c.job].Pages) : q.completion[c.job].Pages[i] = c.page

\* Complete has returned on its counts with pages of two documents completed.
C30_Witness ==
  /\ q.kind = "page"
  /\ q.complete.pc = "returned"
  /\ ~q.complete.byDone
  /\ Len(q.pathList) = 2
  /\ \E c, d \in BagToSet(q.completed) : c.job # d.job

\* C27: decoding the encoding of a DocPageLocations succeeds and gives a
\* record equal to the original: the same Doc, the same Page and the same
\* text locations, field by field.
C27_RoundTrip ==
  (call.fn = "Roundtrip" /\ call.done) =>
    /\ call.result[2] = NoErr
    /\ call.result[1] = call.dpl

\* C28: when no submission is in progress, every document index below Len()
\* can be opened: OpenPositionsDoc gives a usable handle or an error, never a
\* nil handle with no error; in memory every hash of the catalog has its
\* DocPositions in hashDoc.  A submission whose extraction stopped with an
\* error after CreatePositionsDoc is one of the submissions.
C28_EveryDocOpens ==
  drv.pc \in {"idle", "returned"} =>
    /\ \A i \in 0..StoreLen - 1 :
         OpenPositionsDoc(i)[2] = NoErr => OpenPositionsDoc(i)[1].live
    /\ isMem => DOMAIN hashIndex \subseteq DOMAIN hashDoc

====
